---- MODULE Spec2Model ----
(***************************************************************************)
(* A model of tutor/env.py: the Renderer singleton and its configuration   *)
(* snapshot, template rendering with strict-undefined semantics, plugin    *)
(* patches, the save driver writing the environment tree, the version      *)
(* marker, and the is_part_of_env filter.                                  *)
(*                                                                         *)
(* Text is a sequence of chunks (each chunk a TLA+ string).  The chunks    *)
(* used for paths form a prefix-free alphabet, so that str.startswith,     *)
(* str.split("/") and equality on the Python strings coincide with the     *)
(* same operations on the chunk sequences.                                 *)
(***************************************************************************)
EXTENDS Integers, Sequences, FiniteSets, TLC

VARIABLES
    config,        \* the caller's configuration dict: key -> value
    heap,          \* the list objects that configuration values refer to
    Renderer_INSTANCE,      \* Renderer.INSTANCE (cls.INSTANCE)
    last_config,   \* the value of the configuration at the latest instance() call
    registry,      \* plugins.iter_patches(config, "X"): <<plugin, patch>> pairs
    plugins,       \* plugins.iter_enabled(config): the enabled plugins, in order
    fs,            \* the files under the environment directory: path -> text
    tool_version,  \* __version__ of the running tool
    call,          \* the last operation called, with its arguments
    result,        \* what that operation returned or raised
    log            \* the templates that operation rendered, in order

vars == <<config, heap, Renderer_INSTANCE, last_config, registry, plugins, fs,
          tool_version, call, result, log>>

(***************************************************************************)
(* Bounds of the model.                                                    *)
(***************************************************************************)
MaxPathLen == 4
MaxPatches == 2

(***************************************************************************)
(* Text helpers (Python str operations).                                   *)
(***************************************************************************)
None == [none |-> TRUE]

startswith(s, p) ==
    /\ Len(p) <= Len(s)
    /\ SubSeq(s, 1, Len(p)) = p

endswith(s, p) ==
    /\ Len(p) <= Len(s)
    /\ SubSeq(s, Len(s) - Len(p) + 1, Len(s)) = p

RECURSIVE split(_, _)
\* s.split(sep) for a one-chunk separator: the list of the pieces between
\* the separators (always at least one piece).
split(s, sep) ==
    IF \A i \in 1..Len(s) : s[i] # sep
    THEN <<s>>
    ELSE LET i == CHOOSE j \in 1..Len(s) :
                      s[j] = sep /\ \A k \in 1..(j - 1) : s[k] # sep
         IN  <<SubSeq(s, 1, i - 1)>> \o split(SubSeq(s, i + 1, Len(s)), sep)

RECURSIVE str_join(_, _)
\* separator.join(items)
str_join(separator, items) ==
    IF Len(items) = 0 THEN <<>>
    ELSE IF Len(items) = 1 THEN items[1]
    ELSE items[1] \o separator \o str_join(separator, Tail(items))

Whitespace == {" ", "\n"}

RECURSIVE lstrip(_)
lstrip(s) ==
    IF Len(s) > 0 /\ s[1] \in Whitespace THEN lstrip(Tail(s)) ELSE s

RECURSIVE rstrip(_)
rstrip(s) ==
    IF Len(s) > 0 /\ s[Len(s)] \in Whitespace
    THEN rstrip(SubSeq(s, 1, Len(s) - 1))
    ELSE s

strip(s) == rstrip(lstrip(s))

contains(seq, x) == \E i \in 1..Len(seq) : seq[i] = x

(***************************************************************************)
(* is_part_of_env                                                          *)
(***************************************************************************)
is_part_of_env(path) ==
    LET parts == split(path, "/")
        basename == parts[Len(parts)]
        e1 == startswith(basename, <<".">>) \/ endswith(basename, <<".", "pyc">>)
        e2 == e1 \/ basename = <<"__pycache__">>
        is_excluded == e2 \/ contains(parts, <<"partials">>)
    IN  ~is_excluded

(***************************************************************************)
(* Configuration values.  A value is a string, [atom |-> text], or a       *)
(* reference to a mutable list of strings in the heap, [ref |-> address].  *)
(***************************************************************************)
Keys == {"K1", "K2"}
KeySeq == <<"K1", "K2">>
Texts == {<<"a">>, <<"b">>}
Addr == 1..(3 * Cardinality(Keys))

IsRef(v) == DOMAIN v = {"ref"}

\* The value of a configuration, as dict.__eq__ compares it: lists by content.
Value(cfg, hp) ==
    [k \in DOMAIN cfg |->
        IF IsRef(cfg[k]) THEN [list |-> hp[cfg[k].ref]] ELSE cfg[k]]

fresh(hp) == CHOOSE a \in Addr \ DOMAIN hp : \A b \in Addr \ DOMAIN hp : a <= b

Refs(cfg) == {cfg[k].ref : k \in {j \in DOMAIN cfg : IsRef(cfg[j])}}

\* Reference counting: a list no configuration refers to is freed.
collect_garbage(hp, cfg, inst) ==
    LET live == Refs(cfg) \cup (IF inst = None THEN {} ELSE Refs(inst.config))
    IN  [a \in DOMAIN hp \cap live |-> hp[a]]

RECURSIVE deepcopy_items(_, _, _)
deepcopy_items(ks, cfg, hp) ==
    IF ks = <<>> THEN [config |-> cfg, heap |-> hp]
    ELSE LET k == Head(ks)
         IN  IF k \in DOMAIN cfg /\ IsRef(cfg[k])
             THEN LET a == fresh(hp)
                  IN  deepcopy_items(Tail(ks),
                                     [cfg EXCEPT ![k] = [ref |-> a]],
                                     hp @@ (a :> hp[cfg[k].ref]))
             ELSE deepcopy_items(Tail(ks), cfg, hp)

\* A copy that shares the nested lists with the original (copy.copy).
shallow_copy(cfg, hp) == [config |-> cfg, heap |-> hp]

\* copy.deepcopy(config): a new dict whose list values are new lists.
deepcopy(cfg, hp) == deepcopy_items(KeySeq, cfg, hp)

(***************************************************************************)
(* Results of calls: a returned value, or a raised exception.              *)
(***************************************************************************)
Ok(out) == [ok |-> TRUE, out |-> out]
Raise(exc, msg) == [ok |-> FALSE, exc |-> exc, msg |-> msg]

(***************************************************************************)
(* Templates.  A template is a sequence of tokens: literal text, a         *)
(* reference to a variable {{ KEY }}, the global {{ TUTOR_VERSION }}, or a *)
(* call {{ patch(name, separator, suffix) }}.                              *)
(***************************************************************************)
Lit(s) == [t |-> "lit", s |-> s]
Var(k) == [t |-> "var", k |-> k]
Global(g) == [t |-> "global", g |-> g]
PatchCall(name, separator, suffix) ==
    [t |-> "patch", name |-> name, separator |-> separator, suffix |-> suffix]

RECURSIVE list_repr(_)
list_repr(items) ==
    IF Len(items) = 0 THEN <<>>
    ELSE <<"'">> \o items[1] \o <<"'">>
         \o (IF Len(items) > 1 THEN <<", ">> ELSE <<>>)
         \o list_repr(Tail(items))

\* str(value), as the engine prints a value in a template
to_str(v, hp) ==
    IF IsRef(v) THEN <<"[">> \o list_repr(hp[v.ref]) \o <<"]">> ELSE v.atom

\* An undefined variable renders as the empty string (jinja2.Undefined).
resolve_lenient(self, hp, k) ==
    IF k \in DOMAIN self.config THEN Ok(to_str(self.config[k], hp)) ELSE Ok(<<>>)

\* {{ k }} in an environment with undefined=jinja2.StrictUndefined
resolve(self, hp, k) ==
    IF k \in DOMAIN self.config
    THEN Ok(to_str(self.config[k], hp))
    ELSE Raise("UndefinedError", <<"'", k, "' is undefined">>)

\* plugins.iter_patches(config, name)
iter_patches(name) == IF name = "X" THEN registry ELSE <<>>

\* patches.insert(0, ...): the contributions in reverse order
collect_front(patches, out) == <<out>> \o patches

\* patches.append(...)
collect(patches, out) == Append(patches, out)

\* rendered += suffix, whatever rendered is
add_suffix_always(rendered, suffix) == rendered \o suffix

\* if rendered: rendered += suffix
add_suffix(rendered, suffix) ==
    IF rendered # <<>> THEN rendered \o suffix ELSE rendered

RECURSIVE template_render(_, _, _), patch_loop(_, _, _, _, _), patch(_, _, _, _, _)

\* Template.render(**self.config)
template_render(self, hp, template) ==
    IF template = <<>> THEN Ok(<<>>)
    ELSE LET tok == Head(template)
             first == CASE tok.t = "lit" -> Ok(tok.s)
                        [] tok.t = "var" -> resolve(self, hp, tok.k)
                        [] tok.t = "global" -> Ok(self.globals[tok.g])
                        [] tok.t = "patch" ->
                             patch(self, hp, tok.name, tok.separator, tok.suffix)
         IN  IF ~first.ok THEN first
             ELSE LET rest == template_render(self, hp, Tail(template))
                  IN  IF ~rest.ok THEN rest ELSE Ok(first.out \o rest.out)

\* the for loop of Renderer.patch
patch_loop(self, hp, name, pairs, patches) ==
    IF pairs = <<>> THEN [ok |-> TRUE, patches |-> patches]
    ELSE LET plugin == pairs[1][1]
             r == template_render(self, hp, pairs[1][2])
         IN  IF r.ok
             THEN patch_loop(self, hp, name, Tail(pairs), collect(patches, r.out))
             ELSE IF r.exc = "UndefinedError"
             THEN Raise("TutorError",
                        <<"Missing configuration value: ">> \o r.msg
                        \o <<" in patch '", name, "' from plugin ", plugin>>)
             ELSE r

\* Renderer.patch
patch(self, hp, name, separator, suffix) ==
    LET l == patch_loop(self, hp, name, iter_patches(name), <<>>)
    IN  IF ~l.ok THEN l
        ELSE Ok(add_suffix(str_join(separator, l.patches), suffix))

\* Renderer.__render
Renderer__render(self, hp, template) ==
    LET r == template_render(self, hp, template)
    IN  IF ~r.ok /\ r.exc = "UndefinedError"
        THEN Raise("TutorError", <<"Missing configuration value: ">> \o r.msg)
        ELSE r

\* Renderer.render_str
render_str(self, hp, text) == Renderer__render(self, hp, text)

(***************************************************************************)
(* The template tree on disk: the core templates and those of the plugins, *)
(* in the order of FileSystemLoader.list_templates() (sorted by path).     *)
(***************************************************************************)
\* templates/version of the core template root
version_template == <<Global("TUTOR_VERSION")>>

Catalogue == <<
    [path |-> <<"apps", "/", "partials", "/", "x">>, root |-> "core",
     body |-> <<Var("K1")>>],
    [path |-> <<"apps", "/", "x">>, root |-> "core",
     body |-> <<Lit(<<"k1=">>), Var("K1")>>],
    [path |-> <<"apps", "/", "y">>, root |-> "core",
     body |-> <<Lit(<<"y">>), PatchCall("X", <<"\n">>, <<>>)>>],
    [path |-> <<"kustomization.yml">>, root |-> "core",
     body |-> <<Lit(<<"k">>)>>],
    [path |-> <<"m", "/", "apps", "/", "x">>, root |-> "m",
     body |-> <<Lit(<<"k2=">>), Var("K2")>>],
    [path |-> <<"m", "/", "apps", "x", "/", "x">>, root |-> "m",
     body |-> <<Lit(<<"extra">>)>>],
    [path |-> <<"m", "/", "build", "/", "x">>, root |-> "m",
     body |-> <<Lit(<<"b">>)>>],
    [path |-> <<"m", "/", "hooks", "/", "x">>, root |-> "m",
     body |-> <<Lit(<<"h">>)>>],
    [path |-> <<"n", "/", "apps", "/", "x">>, root |-> "n",
     body |-> <<Lit(<<"n">>)>>],
    [path |-> <<"version">>, root |-> "core",
     body |-> version_template] >>

TEMPLATES_ROOT == "core"
VERSION_FILENAME == <<"version">>

\* self.environment.loader.list_templates()
list_templates(self) ==
    LET seen == SelectSeq(Catalogue,
                          LAMBDA e : contains(self.template_roots, e.root))
    IN  [i \in 1..Len(seen) |-> seen[i].path]

\* self.environment.get_template(path)
get_template(self, path) ==
    LET found == SelectSeq(Catalogue,
                           LAMBDA e : /\ e.path = path
                                      /\ contains(self.template_roots, e.root))
    IN  IF found = <<>> THEN Raise("TemplateNotFound", path)
        ELSE [ok |-> TRUE, template |-> found[1].body]

\* Renderer.iter_templates_in
iter_templates_in(self, prefix) ==
    SelectSeq(list_templates(self),
              LAMBDA t : startswith(t, prefix) /\ is_part_of_env(t))

\* Renderer.render_file (fmt.echo_error only prints; the exception is re-raised)
render_file(self, hp, path) ==
    LET t == get_template(self, path)
    IN  IF ~t.ok THEN t ELSE Renderer__render(self, hp, t.template)

(***************************************************************************)
(* The Renderer singleton.                                                 *)
(***************************************************************************)
new_id(inst) == IF inst = None THEN 1 ELSE 3 - inst.id

\* Renderer.__init__: the renderer and the heap after the copy
Renderer_init(id, cfg, hp, template_roots, version) ==
    LET c == deepcopy(cfg, hp)
    IN  [self |-> [id |-> id,
                   config |-> c.config,
                   template_roots |-> template_roots,
                   globals |-> [TUTOR_VERSION |-> version]],
         heap |-> c.heap]

\* the roots of the enabled plugins that have one, in enumeration order
RECURSIVE plugin_roots(_)
plugin_roots(ps) ==
    IF ps = <<>> THEN <<>>
    ELSE (IF ps[1].templates_root THEN <<ps[1].name>> ELSE <<>>)
         \o plugin_roots(Tail(ps))

\* rebuild only when there is no renderer yet
stale_never(inst, cfg, hp) == inst = None

\* cls.INSTANCE is None or cls.INSTANCE.config != config
stale(inst, cfg, hp) ==
    inst = None \/ Value(inst.config, hp) # Value(cfg, hp)

\* Renderer.instance: the renderer returned and the heap after the call
instance(inst, cfg, hp, ps, version) ==
    IF stale(inst, cfg, hp)
    THEN Renderer_init(new_id(inst), cfg, hp,
                       <<TEMPLATES_ROOT>> \o plugin_roots(ps), version)
    ELSE [self |-> inst, heap |-> hp]

(***************************************************************************)
(* The save driver.  A pass threads a record through the calls: the        *)
(* singleton, the heap, the files, the templates rendered so far, and the  *)
(* exception raised, if any; a raised exception skips everything after it. *)
(***************************************************************************)
\* os.path.join(a, b) for a relative b
os_path_join(a, b) == a \o <<"/">> \o b

\* base_dir(root), relative to the project root
base_dir == <<"env">>

\* pathjoin(root, *path)
pathjoin(path) == IF path = <<>> THEN base_dir ELSE os_path_join(base_dir, path)

\* open(path, "a"): the content is added to what the file held
write_append(files, content, path) ==
    IF path \in DOMAIN files
    THEN [files EXCEPT ![path] = @ \o content]
    ELSE (path :> content) @@ files

\* write_to(content, path): the file is created or truncated
write_to(files, content, path) == (path :> content) @@ files

RECURSIVE write_loop(_, _, _, _)
\* the for loop of save_all_from
write_loop(st, renderer, templates, root) ==
    IF templates = <<>> THEN st
    ELSE LET template == Head(templates)
             rendered == render_file(renderer, st.heap, template)
             seen == [st EXCEPT !.log = Append(@, template)]
         IN  IF ~rendered.ok
             THEN [seen EXCEPT !.raised = TRUE, !.err = rendered]
             ELSE write_loop(
                      [seen EXCEPT !.fs = write_to(@, rendered.out,
                                                   os_path_join(root, template))],
                      renderer, Tail(templates), root)

RECURSIVE write_loop_keep_going(_, _, _, _)
\* a loop that notes a failed render and goes on with the next template
write_loop_keep_going(st, renderer, templates, root) ==
    IF templates = <<>> THEN st
    ELSE LET template == Head(templates)
             rendered == render_file(renderer, st.heap, template)
             seen == [st EXCEPT !.log = Append(@, template)]
         IN  IF ~rendered.ok
             THEN write_loop_keep_going(
                      [seen EXCEPT !.raised = TRUE, !.err = rendered],
                      renderer, Tail(templates), root)
             ELSE write_loop_keep_going(
                      [seen EXCEPT !.fs = write_to(@, rendered.out,
                                                   os_path_join(root, template))],
                      renderer, Tail(templates), root)

save_all_from_keep_going(st, prefix, root, cfg, ps, version) ==
    IF st.raised THEN st
    ELSE LET r == instance(st.inst, cfg, st.heap, ps, version)
         IN  write_loop_keep_going([st EXCEPT !.inst = r.self, !.heap = r.heap],
                                   r.self, iter_templates_in(r.self, prefix), root)

\* save_all_from(prefix, root, config)
save_all_from(st, prefix, root, cfg, ps, version) ==
    IF st.raised THEN st
    ELSE LET r == instance(st.inst, cfg, st.heap, ps, version)
         IN  write_loop([st EXCEPT !.inst = r.self, !.heap = r.heap],
                        r.self, iter_templates_in(r.self, prefix), root)

\* save_plugin_templates(plugin, root, config)
save_plugin_templates(st, plugin, cfg, ps, version) ==
    LET plugins_root == pathjoin(<<"plugins">>)
        apps == save_all_from(st, os_path_join(<<plugin.name>>, <<"apps">>),
                              plugins_root, cfg, ps, version)
    IN  save_all_from(apps, os_path_join(<<plugin.name>>, <<"build">>),
                      plugins_root, cfg, ps, version)

\* the prefixes of save, without the version marker
SavePrefixesNoVersion == <<
    <<"android", "/">>, <<"apps", "/">>, <<"build", "/">>, <<"dev", "/">>,
    <<"k8s", "/">>, <<"local", "/">>, <<"webui", "/">>,
    <<"kustomization.yml">> >>

\* the prefixes that save renders, in order
SavePrefixes == <<
    <<"android", "/">>, <<"apps", "/">>, <<"build", "/">>, <<"dev", "/">>,
    <<"k8s", "/">>, <<"local", "/">>, <<"webui", "/">>,
    VERSION_FILENAME, <<"kustomization.yml">> >>

RECURSIVE save_prefixes(_, _, _, _, _)
\* the first loop of save
save_prefixes(st, prefixes, cfg, ps, version) ==
    IF prefixes = <<>> THEN st
    ELSE save_prefixes(save_all_from(st, Head(prefixes), pathjoin(<<>>),
                                     cfg, ps, version),
                       Tail(prefixes), cfg, ps, version)

RECURSIVE save_plugins(_, _, _, _, _)
\* the second loop of save
save_plugins(st, todo, cfg, ps, version) ==
    IF todo = <<>> THEN st
    ELSE save_plugins(IF todo[1].templates_root
                      THEN save_plugin_templates(st, todo[1], cfg, ps, version)
                      ELSE st,
                      Tail(todo), cfg, ps, version)

\* save(root, config)
save(st, cfg, ps, version) ==
    save_plugins(save_prefixes(st, SavePrefixes, cfg, ps, version),
                 ps, cfg, ps, version)

\* version(root)
version(files) ==
    LET path == pathjoin(VERSION_FILENAME)
    IN  IF path \notin DOMAIN files THEN <<"0">> ELSE strip(files[path])

\* is_up_to_date(root)
is_up_to_date(files, running) == version(files) = running

(***************************************************************************)
(* Inputs of the operations.                                               *)
(***************************************************************************)
Versions == {<<"1">>, <<"2">>}
PatchNames == {"X", "Y"}
Separators == {<<"\n">>, <<",">>, <<>>}
Suffixes == {<<>>, <<";">>}
StrTemplates == {
    <<Lit(<<"t">>)>>,
    <<Var("K1")>>,
    <<Lit(<<"v=">>), Var("K2"), Lit(<<".">>)>>,
    <<Lit(<<"[">>), PatchCall("X", <<",">>, <<";">>), Lit(<<"]">>)>> }
FilePaths == {
    <<"apps", "/", "x">>,
    <<"apps", "/", "y">>,
    <<"m", "/", "apps", "/", "x">>,
    <<"version">>,
    <<"nofile">> }

NoCall == [op |-> "none"]
Unset == [set |-> FALSE]
PluginM == [name |-> "m", templates_root |-> TRUE]
PluginN == [name |-> "n", templates_root |-> FALSE]
PluginNRoot == [name |-> "n", templates_root |-> TRUE]

(***************************************************************************)
(* The caller changes its configuration dict.                              *)
(***************************************************************************)
\* config[k] = s
SetKey(k, s) ==
    /\ config' = (k :> [atom |-> s]) @@ config
    /\ heap' = collect_garbage(heap, config', Renderer_INSTANCE)
    /\ call' = [op |-> "setitem"]
    /\ result' = None
    /\ UNCHANGED <<Renderer_INSTANCE, last_config, registry, plugins, fs,
                   tool_version, log>>

\* config[k] = [s]
SetList(k, s) ==
    /\ LET a == fresh(heap)
       IN  /\ config' = (k :> [ref |-> a]) @@ config
           /\ heap' = collect_garbage(heap @@ (a :> <<s>>), config',
                                      Renderer_INSTANCE)
    /\ call' = [op |-> "setitem"]
    /\ result' = None
    /\ UNCHANGED <<Renderer_INSTANCE, last_config, registry, plugins, fs,
                   tool_version, log>>

\* config[k][0] = s, for a key that holds a list
ListSet(k, s) ==
    /\ k \in DOMAIN config
    /\ IsRef(config[k])
    /\ heap' = [heap EXCEPT ![config[k].ref] = <<s>>]
    /\ call' = [op |-> "list_setitem"]
    /\ result' = None
    /\ UNCHANGED <<config, Renderer_INSTANCE, last_config, registry, plugins,
                   fs, tool_version, log>>

\* del config[k]
DelKey(k) ==
    /\ k \in DOMAIN config
    /\ config' = [j \in DOMAIN config \ {k} |-> config[j]]
    /\ heap' = collect_garbage(heap, config', Renderer_INSTANCE)
    /\ call' = [op |-> "delitem"]
    /\ result' = None
    /\ UNCHANGED <<Renderer_INSTANCE, last_config, registry, plugins, fs,
                   tool_version, log>>

(***************************************************************************)
(* The Renderer's class methods and methods.                               *)
(***************************************************************************)
\* Renderer.instance(config)
Instance ==
    /\ LET r == instance(Renderer_INSTANCE, config, heap, plugins, tool_version)
       IN  /\ Renderer_INSTANCE' = r.self
           /\ heap' = collect_garbage(r.heap, config, r.self)
           /\ result' = [ok |-> TRUE, id |-> r.self.id]
    /\ last_config' = [set |-> TRUE, value |-> Value(config, heap)]
    /\ call' = [op |-> "instance",
                prev |-> last_config,
                prev_id |-> IF Renderer_INSTANCE = None THEN 0
                            ELSE Renderer_INSTANCE.id]
    /\ UNCHANGED <<config, registry, plugins, fs, tool_version, log>>

\* Renderer.reset()
Reset ==
    /\ Renderer_INSTANCE' = None
    /\ heap' = collect_garbage(heap, config, None)
    /\ last_config' = Unset
    /\ call' = [op |-> "reset"]
    /\ result' = None
    /\ UNCHANGED <<config, registry, plugins, fs, tool_version, log>>

\* renderer.patch(name, separator, suffix) on the renderer last returned
Patch(name, separator, suffix) ==
    /\ Renderer_INSTANCE # None
    /\ call' = [op |-> "patch", name |-> name, separator |-> separator,
                suffix |-> suffix]
    /\ result' = patch(Renderer_INSTANCE, heap, name, separator, suffix)
    /\ UNCHANGED <<config, heap, Renderer_INSTANCE, last_config, registry,
                   plugins, fs, tool_version, log>>

\* renderer.render_str(text)
RenderStr(text) ==
    /\ Renderer_INSTANCE # None
    /\ call' = [op |-> "render_str", template |-> text]
    /\ result' = render_str(Renderer_INSTANCE, heap, text)
    /\ UNCHANGED <<config, heap, Renderer_INSTANCE, last_config, registry,
                   plugins, fs, tool_version, log>>

\* renderer.render_file(path)
RenderFile(path) ==
    /\ Renderer_INSTANCE # None
    /\ call' = [op |-> "render_file", path |-> path]
    /\ result' = render_file(Renderer_INSTANCE, heap, path)
    /\ UNCHANGED <<config, heap, Renderer_INSTANCE, last_config, registry,
                   plugins, fs, tool_version, log>>

(***************************************************************************)
(* Spec: the singleton and its snapshot, under a caller that changes its   *)
(* configuration between calls.                                            *)
(***************************************************************************)
Init ==
    /\ config = <<>>
    /\ heap = <<>>
    /\ Renderer_INSTANCE = None
    /\ last_config = Unset
    /\ registry = << <<"m", <<Lit(<<"p:">>), Var("K2")>> >> >>
    /\ plugins = <<PluginM>>
    /\ fs = <<>>
    /\ tool_version = <<"1">>
    /\ call = NoCall
    /\ result = None
    /\ log = <<>>

Next ==
    \/ \E k \in Keys, s \in Texts : SetKey(k, s)
    \/ \E k \in Keys, s \in Texts : SetList(k, s)
    \/ \E k \in Keys, s \in Texts : ListSet(k, s)
    \/ \E k \in Keys : DelKey(k)
    \/ Instance
    \/ Reset
    \/ Patch("X", <<"\n">>, <<>>)
    \/ \E t \in {<<Var("K1")>>, <<Lit(<<"v=">>), Var("K2"), Lit(<<".">>)>>} :
          RenderStr(t)
    \/ RenderFile(<<"apps", "/", "x">>)

Spec == Init /\ [][Next]_vars

(***************************************************************************)
(* What a render is expected to produce, stated on the value of a          *)
(* configuration (key -> [atom |-> text] or [list |-> texts]).             *)
(***************************************************************************)
ValueText(v) ==
    IF DOMAIN v = {"list"} THEN <<"[">> \o list_repr(v.list) \o <<"]">>
    ELSE v.atom

RECURSIVE Flat(_, _)
\* the pieces in order, with the separator between neighbours
Flat(pieces, separator) ==
    IF Len(pieces) = 0 THEN <<>>
    ELSE IF Len(pieces) = 1 THEN pieces[1]
    ELSE Flat(SubSeq(pieces, 1, Len(pieces) - 1), separator)
         \o separator \o pieces[Len(pieces)]

RECURSIVE Subst(_, _)
\* the template with every token replaced by its text
Subst(template, V) ==
    IF template = <<>> THEN <<>>
    ELSE LET tok == template[Len(template)]
             front == Subst(SubSeq(template, 1, Len(template) - 1), V)
             text ==
                 CASE tok.t = "lit" -> tok.s
                   [] tok.t = "var" -> ValueText(V[tok.k])
                   [] tok.t = "global" -> tool_version
                   [] tok.t = "patch" ->
                        LET reg == iter_patches(tok.name)
                            j == Flat([i \in 1..Len(reg) |-> Subst(reg[i][2], V)],
                                      tok.separator)
                        IN  IF j = <<>> THEN <<>> ELSE j \o tok.suffix
         IN  front \o text

\* the keys a template refers to itself
DirectKeys(template) ==
    {template[i].k : i \in {j \in 1..Len(template) : template[j].t = "var"}}

RECURSIVE FirstFailure(_, _)
\* the first reference to an unset key that a render of the template meets
FirstFailure(template, V) ==
    IF template = <<>> THEN [found |-> FALSE]
    ELSE LET tok == Head(template)
             reg == IF tok.t = "patch" THEN iter_patches(tok.name) ELSE <<>>
             bad == {i \in 1..Len(reg) : FirstFailure(reg[i][2], V).found}
             i0 == CHOOSE i \in bad : \A j \in bad : i <= j
         IN  IF tok.t = "var" /\ tok.k \notin DOMAIN V
             THEN [found |-> TRUE, key |-> tok.k, patch |-> "", plugin |-> ""]
             ELSE IF bad # {}
             THEN [found |-> TRUE,
                   key |-> FirstFailure(reg[i0][2], V).key,
                   patch |-> tok.name,
                   plugin |-> reg[i0][1]]
             ELSE FirstFailure(Tail(template), V)

\* the template that the last call rendered
Rendered ==
    CASE call.op = "render_str" -> call.template
      [] call.op = "render_file" ->
            get_template(Renderer_INSTANCE, call.path).template
      [] call.op = "patch" ->
            <<PatchCall(call.name, call.separator, call.suffix)>>

IsRender ==
    \/ call.op \in {"render_str", "patch"}
    \/ call.op = "render_file" /\ get_template(Renderer_INSTANCE, call.path).ok

Snapshot == Value(Renderer_INSTANCE.config, heap)

(***************************************************************************)
(* C1: with no reset() since the previous Renderer.instance(config) call,  *)
(* a call whose configuration equals that of the previous call returns the *)
(* same renderer object, and a call whose configuration differs from it    *)
(* returns a newly built one.                                              *)
(***************************************************************************)
C1_InstanceCaching ==
    (call.op = "instance" /\ call.prev.set) =>
        /\ Renderer_INSTANCE # None
        /\ result.id = Renderer_INSTANCE.id
        /\ IF call.prev.value = Value(config, heap)
           THEN result.id = call.prev_id
           ELSE result.id # call.prev_id

\* an unchanged configuration got the renderer that an earlier changed
\* configuration had built
C1_Witness ==
    /\ call.op = "instance"
    /\ call.prev.set
    /\ call.prev.value = Value(config, heap)
    /\ result.id = call.prev_id
    /\ result.id = 2

(***************************************************************************)
(* C9: a renderer keeps the configuration it was constructed with: its     *)
(* stored configuration is the value passed to the latest instance() call, *)
(* whatever the caller did to its dict since; its renders use that value;  *)
(* and instance(config) returns a renderer whose snapshot is config.       *)
(***************************************************************************)
C9_ConfigSnapshot ==
    Renderer_INSTANCE # None =>
        /\ last_config.set
        /\ Snapshot = last_config.value
        /\ call.op = "instance" => Snapshot = Value(config, heap)
        /\ IsRender =>
              IF FirstFailure(Rendered, last_config.value).found
              THEN ~result.ok
              ELSE result = Ok(Subst(Rendered, last_config.value))

\* a render after the caller changed a nested list in place
C9_Witness ==
    /\ Renderer_INSTANCE # None
    /\ call.op = "render_str"
    /\ result.ok
    /\ "K2" \in DirectKeys(call.template)
    /\ "K2" \in DOMAIN config
    /\ IsRef(config["K2"])
    /\ IsRef(Renderer_INSTANCE.config["K2"])
    /\ heap[config["K2"].ref] # heap[Renderer_INSTANCE.config["K2"].ref]

(***************************************************************************)
(* SpecEnv: is_part_of_env applied to every path of at most MaxPathLen     *)
(* chunks.                                                                 *)
(***************************************************************************)
PathAlphabet == {"/", ".", "pyc", "__pycache__", "partials", "x"}
\* template names as a loader lists them: no empty segment, no "." segment
Paths ==
    {p \in UNION {[1..n -> PathAlphabet] : n \in 1..MaxPathLen} :
        \A i \in 1..Len(split(p, "/")) :
            split(p, "/")[i] \notin {<<>>, <<".">>}}

IsPartOfEnv(path) ==
    /\ call' = [op |-> "is_part_of_env", path |-> path]
    /\ result' = [ok |-> TRUE, value |-> is_part_of_env(path)]
    /\ UNCHANGED <<config, heap, Renderer_INSTANCE, last_config, registry,
                   plugins, fs, tool_version, log>>

NextEnv == \E path \in Paths : IsPartOfEnv(path)

SpecEnv == Init /\ [][NextEnv]_vars

(***************************************************************************)
(* C2: is_part_of_env(path) is false exactly when some segment of the path *)
(* starts with ".", or some segment is "__pycache__", or some segment is   *)
(* "partials", or the file name ends with ".pyc".                          *)
(***************************************************************************)
C2_RenderableIffNoExcludedSegment ==
    call.op = "is_part_of_env" =>
        LET segments == split(call.path, "/")
            filename == segments[Len(segments)]
            excluded ==
                \/ \E i \in 1..Len(segments) :
                      \/ startswith(segments[i], <<".">>)
                      \/ segments[i] = <<"__pycache__">>
                      \/ segments[i] = <<"partials">>
                \/ endswith(filename, <<".", "pyc">>)
        IN  result.value = ~excluded

(***************************************************************************)
(* SpecPatch: renders and patches under every registry of at most          *)
(* MaxPatches contributions and every configuration of string values.      *)
(***************************************************************************)
PluginNames == {"m", "n"}
Bodies == {
    <<>>,
    <<Lit(<<"p">>)>>,
    <<Var("K1")>>,
    <<Lit(<<"q">>), Var("K2")>> }
Registries == UNION {[1..n -> PluginNames \X Bodies] : n \in 0..MaxPatches}
AtomConfigs ==
    UNION {[D -> {[atom |-> s] : s \in Texts}] : D \in SUBSET Keys}

InitPatch ==
    /\ config \in AtomConfigs
    /\ heap = <<>>
    /\ Renderer_INSTANCE = None
    /\ last_config = Unset
    /\ registry \in Registries
    /\ plugins = <<PluginM>>
    /\ fs = <<>>
    /\ tool_version = <<"1">>
    /\ call = NoCall
    /\ result = None
    /\ log = <<>>

NextPatch ==
    \/ Instance
    \/ \E n \in PatchNames, sep \in Separators, suf \in Suffixes :
          Patch(n, sep, suf)
    \/ \E t \in StrTemplates : RenderStr(t)
    \/ \E p \in FilePaths : RenderFile(p)

SpecPatch == InitPatch /\ [][NextPatch]_vars

\* the texts the contributions to a patch name render to, in enumeration order
Pieces(name) ==
    [i \in 1..Len(iter_patches(name)) |->
        Subst(iter_patches(name)[i][2], Snapshot)]

RECURSIVE Offset(_, _, _)
\* where piece i starts in the joined text, counted from 0
Offset(pieces, separator, i) ==
    IF i = 1 THEN 0
    ELSE Offset(pieces, separator, i - 1) + Len(pieces[i - 1]) + Len(separator)

(***************************************************************************)
(* C3: patch(name, separator) returns the rendered contributions in the    *)
(* order of the enumeration, each once, with the separator between every   *)
(* two neighbours and nowhere else.                                        *)
(***************************************************************************)
C3_PatchJoinsInOrder ==
    (call.op = "patch" /\ call.suffix = <<>> /\ result.ok) =>
        LET pieces == Pieces(call.name)
            sep == call.separator
            n == Len(pieces)
            out == result.out
        IN  /\ Len(out) = IF n = 0 THEN 0
                          ELSE Offset(pieces, sep, n) + Len(pieces[n])
            /\ \A i \in 1..n :
                  SubSeq(out, Offset(pieces, sep, i) + 1,
                         Offset(pieces, sep, i) + Len(pieces[i])) = pieces[i]
            /\ \A i \in 1..(n - 1) :
                  SubSeq(out, Offset(pieces, sep, i) + Len(pieces[i]) + 1,
                         Offset(pieces, sep, i + 1)) = sep

\* two contributions that render to different texts, joined by a separator
C3_Witness ==
    /\ call.op = "patch"
    /\ call.suffix = <<>>
    /\ call.separator # <<>>
    /\ result.ok
    /\ Len(iter_patches(call.name)) = 2
    /\ Pieces(call.name)[1] # Pieces(call.name)[2]
    /\ Pieces(call.name)[1] # <<>>
    /\ Pieces(call.name)[2] # <<>>

(***************************************************************************)
(* C4: patch(name, separator, suffix) ends with the suffix exactly when    *)
(* the joined contributions are not empty; with no contribution it returns *)
(* the empty string.                                                       *)
(***************************************************************************)
C4_SuffixOnlyWhenNonEmpty ==
    call.op = "patch" =>
        /\ iter_patches(call.name) = <<>> => result = Ok(<<>>)
        /\ result.ok =>
              LET joined == Flat(Pieces(call.name), call.separator)
              IN  result.out = IF joined # <<>> THEN joined \o call.suffix
                               ELSE <<>>

\* contributions that all render to nothing: no suffix
C4_Witness ==
    /\ call.op = "patch"
    /\ call.suffix # <<>>
    /\ iter_patches(call.name) # <<>>
    /\ result = Ok(<<>>)

(***************************************************************************)
(* C5: a render (render_file, render_str, patch) that refers to an unset   *)
(* configuration key raises a TutorError whose message names the key and,  *)
(* when the reference is in a patch body, the patch and the plugin; a      *)
(* render whose keys are all set returns the template with the             *)
(* configuration values substituted.                                       *)
(***************************************************************************)
C5_MissingKeyIsAnError ==
    IsRender =>
        LET f == FirstFailure(Rendered, Snapshot)
        IN  IF f.found
            THEN /\ ~result.ok
                 /\ result.exc = "TutorError"
                 /\ contains(result.msg, f.key)
                 /\ f.patch # "" =>
                       /\ contains(result.msg, f.patch)
                       /\ contains(result.msg, f.plugin)
            ELSE result = Ok(Subst(Rendered, Snapshot))

\* render_file of a template that calls a patch whose body needs an unset key
C5_Witness ==
    /\ call.op = "render_file"
    /\ ~result.ok
    /\ result.exc = "TutorError"
    /\ contains(result.msg, "X")
    /\ contains(result.msg, "K2")
    /\ "K1" \in DOMAIN config

(***************************************************************************)
(* SpecSave: save passes under changing configurations, plugin sets and    *)
(* tool versions.                                                          *)
(***************************************************************************)
\* save(root, config)
Save ==
    /\ \E st \in {save([inst |-> Renderer_INSTANCE, heap |-> heap, fs |-> fs,
                         log |-> <<>>, raised |-> FALSE, err |-> None],
                        config, plugins, tool_version)} :
           /\ Renderer_INSTANCE' = st.inst
           /\ heap' = collect_garbage(st.heap, config, st.inst)
           /\ fs' = st.fs
           /\ log' = st.log
           /\ result' = IF st.raised THEN st.err ELSE Ok(<<>>)
    /\ last_config' = [set |-> TRUE, value |-> Value(config, heap)]
    /\ call' = [op |-> "save", before |-> version(fs)]
    /\ UNCHANGED <<config, registry, plugins, tool_version>>

\* a later run of a tool of another version: a new process, no renderer yet
UpgradeTool ==
    /\ tool_version' \in Versions \ {tool_version}
    /\ Renderer_INSTANCE' = None
    /\ heap' = collect_garbage(heap, config, None)
    /\ last_config' = Unset
    /\ call' = [op |-> "upgrade"]
    /\ result' = None
    /\ UNCHANGED <<config, registry, plugins, fs, log>>

InitSave ==
    /\ config = <<>>
    /\ heap = <<>>
    /\ Renderer_INSTANCE = None
    /\ last_config = Unset
    /\ registry \in {<<>>, << <<"n", <<Lit(<<"p:">>), Var("K2")>> >> >>}
    /\ plugins \in {<<>>, <<PluginM>>, <<PluginN, PluginM>>,
                    <<PluginM, PluginNRoot>>}
    /\ fs = <<>>
    /\ tool_version = <<"1">>
    /\ call = NoCall
    /\ result = None
    /\ log = <<>>

NextSave ==
    \/ \E k \in Keys, s \in Texts : SetKey(k, s)
    \/ \E k \in Keys : DelKey(k)
    \/ Save
    \/ UpgradeTool

SpecSave == InitSave /\ [][NextSave]_vars

Marker == pathjoin(VERSION_FILENAME)

(***************************************************************************)
(* C6: version(root) is "0" when the marker file is absent, and after a    *)
(* save that completed without error it is the running tool's version,     *)
(* whatever the marker held before.                                        *)
(***************************************************************************)
C6_VersionAfterSave ==
    /\ Marker \notin DOMAIN fs => version(fs) = <<"0">>
    /\ (call.op = "save" /\ result.ok) =>
          /\ Marker \in DOMAIN fs
          /\ version(fs) = tool_version
          /\ is_up_to_date(fs, tool_version)

\* a save that replaced the marker of another version
C6_Witness ==
    /\ call.op = "save"
    /\ result.ok
    /\ call.before # <<"0">>
    /\ call.before # tool_version
    /\ version(fs) = tool_version

\* the templates of a pass with their destinations, in the order of the pass
WorkOf(renderer, prefixes, root) ==
    LET per == [i \in 1..Len(prefixes) |->
                   LET ts == iter_templates_in(renderer, prefixes[i])
                   IN  [j \in 1..Len(ts) |->
                           [template |-> ts[j],
                            dst |-> os_path_join(root, ts[j])]]]
        flat[i \in 0..Len(prefixes)] ==
            IF i = 0 THEN <<>> ELSE flat[i - 1] \o per[i]
    IN  flat[Len(prefixes)]

PluginPrefixes ==
    LET with_root == SelectSeq(plugins, LAMBDA p : p.templates_root)
        flat[i \in 0..Len(with_root)] ==
            IF i = 0 THEN <<>>
            ELSE flat[i - 1] \o << <<with_root[i].name, "/", "apps">>,
                                   <<with_root[i].name, "/", "build">> >>
    IN  flat[Len(with_root)]

\* the pass of the save that led to the primed state
Work ==
    WorkOf(Renderer_INSTANCE', SavePrefixes, <<"env">>)
    \o WorkOf(Renderer_INSTANCE', PluginPrefixes, <<"env", "/", "plugins">>)

(***************************************************************************)
(* C7: a save in which a render fails stops at that template: the          *)
(* templates before it in the pass were rendered and their files hold the  *)
(* new content, no template after it was rendered or written, every other  *)
(* file is as it was, and the caller gets the error of that render.        *)
(***************************************************************************)
C7_SaveAbortsAtFirstFailure ==
    [][(call'.op = "save" /\ ~result'.ok) =>
         \E W \in {Work}, V \in {Value(config, heap)} :
         \E body \in {[i \in 1..Len(W) |->
                         get_template(Renderer_INSTANCE', W[i].template).template]} :
             LET n == Len(log')
             IN  /\ n \in 1..Len(W)
                 /\ \A i \in 1..n : log'[i] = W[i].template
                 /\ \A i \in 1..(n - 1) :
                       /\ ~FirstFailure(body[i], V).found
                       /\ W[i].dst \in DOMAIN fs'
                       /\ fs'[W[i].dst] = Subst(body[i], V)
                 /\ FirstFailure(body[n], V).found
                 /\ result' = render_file(Renderer_INSTANCE', heap', W[n].template)
                 /\ \A path \in DOMAIN fs' \cup DOMAIN fs :
                       path \notin {W[i].dst : i \in 1..(n - 1)} =>
                          /\ path \in DOMAIN fs
                          /\ path \in DOMAIN fs'
                          /\ fs'[path] = fs[path]
      ]_vars

\* a save that failed in a plugin template after it wrote the core files
C7_Witness ==
    /\ call.op = "save"
    /\ ~result.ok
    /\ Len(log) >= 3
    /\ log[Len(log)] = <<"m", "/", "apps", "/", "x">>
    /\ pathjoin(<<"apps", "/", "x">>) \in DOMAIN fs
    /\ pathjoin(<<"plugins", "/", "m", "/", "build", "/", "x">>) \notin DOMAIN fs

(***************************************************************************)
(* C8: under plugins/, save writes only renderable templates of the        *)
(* "apps" or "build" subtree of an enabled plugin that has a template      *)
(* root: <plugin name>/apps/... or <plugin name>/build/...                 *)
(***************************************************************************)
C8_OnlyAppsAndBuildSubtrees ==
    \A path \in DOMAIN fs :
        startswith(path, <<"env", "/", "plugins", "/">>) =>
            LET template == SubSeq(path, 5, Len(path))
            IN  /\ is_part_of_env(template)
                /\ \E i \in 1..Len(plugins) :
                      /\ plugins[i].templates_root
                      /\ \/ startswith(template,
                                       <<plugins[i].name, "/", "apps", "/">>)
                         \/ startswith(template,
                                       <<plugins[i].name, "/", "build", "/">>)

(***************************************************************************)
(* C10: a save that ends with an error leaves the version marker as it was *)
(* before the pass, so that a save makes the environment up to date only   *)
(* when it completed.                                                      *)
(***************************************************************************)
C10_FailedSaveKeepsMarker ==
    [][call'.op = "save" =>
         /\ ~result'.ok =>
               /\ Marker \in DOMAIN fs' <=> Marker \in DOMAIN fs
               /\ version(fs') = version(fs)
         /\ (~is_up_to_date(fs, tool_version) /\ is_up_to_date(fs', tool_version))
               => result'.ok
      ]_vars

====
